---------------------------- MODULE Spec2Model ----------------------------
(***************************************************************************)
(* Model of src/AggregateFunctions/AggregateFunctionUniq.h: the key        *)
(* encoder (detail::OneAdder, AggregateFunctionUniqTraits) and the         *)
(* aggregate facade (AggregateFunctionUniq, AggregateFunctionUniqVariadic) *)
(* over the three estimators (uniqExact, uniqHLL12, uniq).                 *)
(*                                                                         *)
(* A 64-bit word is a sequence of 8 bytes, least significant first (the    *)
(* code assumes little endian); a UInt128 key is 16 bytes, key.low being   *)
(* bytes 1..8 and key.high bytes 9..16.  All arithmetic is done at full    *)
(* width, byte by byte.                                                    *)
(***************************************************************************)
EXTENDS Integers, Sequences, FiniteSets, TLC

VARIABLES
    value1,     \* key encoder: first string of the column
    value2,     \* key encoder: second string of the column
    padding,    \* key encoder: the byte that follows a string in column memory
    sipc,       \* key encoder: which SipHash function the run uses
    kset,       \* key encoder: per build, the exact set fed by OneAdder::add
    kfed,       \* key encoder: per build, the strings fed so far (history)
    kmerged,    \* key encoder: the SSSE3 build's set after merging the portable one
    setup,      \* variadic: the argument types and the argument_is_tuple parameter
    fn,         \* variadic: the aggregate function object, once constructed
    vset,       \* variadic: the group state's set
    rows,       \* variadic: the number of rows added
    variant,    \* facade: the estimator variant of the query
    data,       \* facade: per place, the group state
    fed,        \* facade: per place, the row values that flowed in (history)
    status,     \* facade: per place, "ok" or the error deserialize threw
    buf,        \* facade: the byte stream last written, with its history
    to,         \* facade: the result column's last value
    steps       \* facade: operations executed

kvars == <<value1, value2, padding, sipc, kset, kfed, kmerged>>

svars == <<setup, fn, vset, rows>>

fvars == <<variant, data, fed, status, buf, to, steps>>

vars == <<kvars, svars, fvars>>

----------------------------------------------------------------------------
(* Bytes and 64-bit words *)

Byte == 0..255

Bit(x, i) == (x \div (2 ^ i)) % 2

XorByte(a, b) ==
    LET d(i) == (IF Bit(a, i) = Bit(b, i) THEN 0 ELSE 1) * (2 ^ i)
    IN  d(0) + d(1) + d(2) + d(3) + d(4) + d(5) + d(6) + d(7)

OrByte(a, b) ==
    LET d(i) == (IF Bit(a, i) = 1 \/ Bit(b, i) = 1 THEN 1 ELSE 0) * (2 ^ i)
    IN  d(0) + d(1) + d(2) + d(3) + d(4) + d(5) + d(6) + d(7)

\* x ^ y on UInt64
Xor64(x, y) ==
    <<XorByte(x[1], y[1]), XorByte(x[2], y[2]), XorByte(x[3], y[3]),
      XorByte(x[4], y[4]), XorByte(x[5], y[5]), XorByte(x[6], y[6]),
      XorByte(x[7], y[7]), XorByte(x[8], y[8])>>

\* x >> 33 on UInt64: four whole bytes and one bit
Shr33(x) ==
    <<(x[5] \div 2) + (x[6] % 2) * 128, (x[6] \div 2) + (x[7] % 2) * 128,
      (x[7] \div 2) + (x[8] % 2) * 128, x[8] \div 2, 0, 0, 0, 0>>

\* x * c on UInt64 (the product modulo 2^64): byte k of the product is the
\* sum of the byte products of column k and the carry of column k - 1.
Mul64(x, c) ==
    LET s1 == x[1] * c[1]
        s2 == x[1] * c[2] + x[2] * c[1] + (s1 \div 256)
        s3 == x[1] * c[3] + x[2] * c[2] + x[3] * c[1] + (s2 \div 256)
        s4 == x[1] * c[4] + x[2] * c[3] + x[3] * c[2] + x[4] * c[1]
              + (s3 \div 256)
        s5 == x[1] * c[5] + x[2] * c[4] + x[3] * c[3] + x[4] * c[2]
              + x[5] * c[1] + (s4 \div 256)
        s6 == x[1] * c[6] + x[2] * c[5] + x[3] * c[4] + x[4] * c[3]
              + x[5] * c[2] + x[6] * c[1] + (s5 \div 256)
        s7 == x[1] * c[7] + x[2] * c[6] + x[3] * c[5] + x[4] * c[4]
              + x[5] * c[3] + x[6] * c[2] + x[7] * c[1] + (s6 \div 256)
        s8 == x[1] * c[8] + x[2] * c[7] + x[3] * c[6] + x[4] * c[5]
              + x[5] * c[4] + x[6] * c[3] + x[7] * c[2] + x[8] * c[1]
              + (s7 \div 256)
    IN  <<s1 % 256, s2 % 256, s3 % 256, s4 % 256,
          s5 % 256, s6 % 256, s7 % 256, s8 % 256>>

\* 0xff51afd7ed558ccdULL
MixC1 == <<205, 140, 85, 237, 215, 175, 81, 255>>

\* 0xc4ceb9fe1a85ec53ULL
MixC2 == <<83, 236, 133, 26, 254, 185, 206, 196>>

\* 0x8000000000000000ULL
TagBit == <<0, 0, 0, 0, 0, 0, 0, 128>>

Low(key) == SubSeq(key, 1, 8)

High(key) == SubSeq(key, 9, 16)

MakeKey(low, high) == low \o high


----------------------------------------------------------------------------
(* Bounds of the model *)

\* Short strings are all byte strings over Alphabet of length <= MaxLen ...
MaxLen == 2

\* ... and the strings of one repeated byte of length 15..MaxLong.
MaxLong == 16

\* 'a', and the zero byte
Alphabet == {0, 97}

RECURSIVE StringsOfLen(_)
StringsOfLen(n) ==
    IF n = 0 THEN {<<>>}
    ELSE {Append(s, b) : s \in StringsOfLen(n - 1), b \in Alphabet}

RECURSIVE Rep(_, _)
Rep(b, n) == IF n = 0 THEN <<>> ELSE <<b>> \o Rep(b, n - 1)

Strings ==
    UNION {StringsOfLen(n) : n \in 0..MaxLen}
        \cup {Rep(b, n) : b \in Alphabet, n \in 15..MaxLong}

----------------------------------------------------------------------------
(* detail::OneAdder<String, AggregateFunctionUniqExactData<String>>::add *)

\* The shuffle masks: row `size` keeps bytes 0..size-1 and has -1 elsewhere.
masks == [size \in 0..15 |-> [i \in 0..15 |-> IF i < size THEN i ELSE -1]]

\* _mm_loadu_si128(value.data): the string's bytes and, past its end, what
\* the column holds there (the 15 bytes of padding make the read safe).
LoadU(value, pad) ==
    [i \in 0..15 |-> IF i < Len(value) THEN value[i + 1] ELSE pad]

\* _mm_shuffle_epi8(a, mask): a mask byte with its top bit set gives zero,
\* any other selects byte (mask & 15) of a.
ShuffleEpi8(a, mask) ==
    [i \in 0..15 |-> IF mask[i] < 0 THEN 0 ELSE a[mask[i] % 16]]

\* _mm_storeu_si128(&key, ...)
StoreU(v) ==
    <<v[0], v[1], v[2], v[3], v[4], v[5], v[6], v[7],
      v[8], v[9], v[10], v[11], v[12], v[13], v[14], v[15]>>

EmbedString(value, pad) ==
    StoreU(ShuffleEpi8(LoadU(value, pad), masks[Len(value)]))

\* The "very light bijective hashing" of key.low; key.high is left as is.
MixKey(key) ==
    LET high == High(key)
        l1 == Xor64(Low(key), Shr33(Low(key)))
        l2 == Mul64(l1, MixC1)
        l3 == Xor64(l2, high)
        l4 == Xor64(l3, Shr33(l3))
        l5 == Mul64(l4, MixC2)
        l6 == Xor64(l5, Shr33(l5))
    IN  MakeKey(l6, high)

\* TagHashed with the tagging left out
TagHashedOff(key) == key

\* key.high |= 0x8000000000000000ULL
TagHashed(key) ==
    LET high == High(key)
    IN  MakeKey(Low(key),
                <<OrByte(high[1], TagBit[1]), OrByte(high[2], TagBit[2]),
                  OrByte(high[3], TagBit[3]), OrByte(high[4], TagBit[4]),
                  OrByte(high[5], TagBit[5]), OrByte(high[6], TagBit[6]),
                  OrByte(high[7], TagBit[7]), OrByte(high[8], TagBit[8])>>)

\* SipHash::get128 over the string's bytes.  The hash is a library function
\* whose values the encoder must not depend on, so a run fixes one of four
\* functions: two constant ones, one that returns for every string the
\* embedded key of its first 15 bytes (so that a hash coincides with a short
\* string's key), and one that is injective on Strings.
SipChoices == {"zero", "ones", "embed", "distinct"}

Prefix15(s) == IF Len(s) <= 15 THEN s ELSE SubSeq(s, 1, 15)

SipHash128(c, s) ==
    CASE c = "zero" -> Rep(0, 16)
      [] c = "ones" -> Rep(255, 16)
      [] c = "embed" -> MixKey(EmbedString(Prefix15(s), 0))
      [] OTHER -> <<Len(s)>> \o SubSeq(EmbedString(Prefix15(s), 0), 1, 15)


\* The exact path's key of one string.  ssse3 tells whether the build
\* defines __SSSE3__ (and not MEMORY_SANITIZER): only then are strings of at
\* most 15 bytes embedded and hashed keys tagged.
OneAdderKey(ssse3, c, value, pad) ==
    IF ssse3 /\ Len(value) <= 15
    THEN MixKey(EmbedString(value, pad))
    ELSE IF ssse3 THEN TagHashed(SipHash128(c, value))
    ELSE SipHash128(c, value)

\* The hash with the value narrowed to 8 bits on the way
AggregateFunctionUniqTraitsHashNarrow(x) == x % 256

\* AggregateFunctionUniqTraits<T>::hash for an integer T of at most 64 bits
AggregateFunctionUniqTraitsHash(x) == x

----------------------------------------------------------------------------
(* Byte streams: the sequential little-endian writer and reader *)

\* A UInt64 below 2^31 as its 8 bytes
WriteUInt64(x) ==
    <<x % 256, (x \div 256) % 256, (x \div 65536) % 256, x \div 16777216,
      0, 0, 0, 0>>

\* readBinary of a UInt64 below 2^31
ReadUInt64(b) == b[1] + 256 * b[2] + 65536 * b[3] + 16777216 * b[4]

\* b1 < b2 in the lexicographic order of byte strings of one length
LexLess(b1, b2) ==
    \E i \in 1..Len(b1) :
        /\ b1[i] < b2[i]
        /\ \A j \in 1..(i - 1) : b1[j] = b2[j]

\* The function f with all its values computed (the comparison makes TLC
\* evaluate the constructor once, and not again at every application)
Whole(f) == IF f = <<>> THEN <<>> ELSE f

\* The elements of a set of byte strings of one length, least first: the
\* element at position i has i - 1 elements below it.
InOrder(S) ==
    LET below == Whole([x \in S |-> Cardinality({y \in S : LexLess(y, x)})])
    IN  Whole([i \in 1..Cardinality(S) |-> CHOOSE x \in S : below[x] = i - 1])

\* The cells of one width, one after the other
Concat(ss) ==
    IF ss = <<>> THEN <<>>
    ELSE LET w == Len(ss[1])
         IN  [i \in 1..(w * Len(ss)) |->
                 ss[((i - 1) \div w) + 1][((i - 1) % w) + 1]]

\* The cells of width w that a buffer holds whole, as far as `count` of them
ReadCells(b, w, count) ==
    LET whole == Len(b) \div w
        n == IF whole < count THEN whole ELSE count
    IN  Whole([i \in 1..n |-> SubSeq(b, (i - 1) * w + 1, i * w)])

Range(f) == {f[i] : i \in DOMAIN f}

Max(a, b) == IF a >= b THEN a ELSE b


----------------------------------------------------------------------------
(* Exact estimator: HashSet<Key, ...> of AggregateFunctionUniqExactData.    *)
(* The set holds each key as its bytes.                                    *)

HashSetEmpty == {}

HashSetInsert(set, key) == set \cup {key}

\* The loop over keys[lo..hi], each inserted in turn.  The range is walked in
\* two halves, the set after the first half being computed before the second
\* begins; so are the loops of the other estimators below.
RECURSIVE HashSetInsertRange(_, _, _, _)
HashSetInsertRange(set, keys, lo, hi) ==
    IF lo > hi THEN set
    ELSE IF lo = hi THEN HashSetInsert(set, keys[lo])
    ELSE LET mid == (lo + hi) \div 2
             half == HashSetInsertRange(set, keys, lo, mid)
         IN  IF half = set THEN HashSetInsertRange(set, keys, mid + 1, hi)
             ELSE HashSetInsertRange(half, keys, mid + 1, hi)

HashSetInsertAll(set, keys) == HashSetInsertRange(set, keys, 1, Len(keys))

\* merge(other): insert every key of other into self
HashSetMerge(set, rhs) == HashSetInsertAll(set, InOrder(rhs))

HashSetSize(set) == Cardinality(set)

\* write: the element count, then all keys in table order
HashSetWrite(set) == <<Cardinality(set)>> \o Concat(InOrder(set))

\* read: the count, then that many keys of w bytes, each inserted as it is
\* read; ok tells whether the buffer held them all.
HashSetRead(b, w) ==
    IF b = <<>> THEN [ok |-> FALSE, state |-> HashSetEmpty]
    ELSE LET cells == ReadCells(Tail(b), w, Head(b))
         IN  [ok |-> Len(cells) = Head(b),
              state |-> HashSetInsertAll(HashSetEmpty, cells)]

----------------------------------------------------------------------------
(* Hybrid estimator: HyperLogLogWithSmallSetOptimization<UInt64, 16, 12>.   *)
(* small is the exact set of hashes, regs the registers that are not zero.  *)

\* small_set_size: the second template argument
SmallSetSize == 16

\* precision: the third template argument, 2^12 buckets
Precision == 12

NumBuckets == 2 ^ Precision

HllEmpty == [large |-> FALSE, small |-> {}, regs |-> <<>>]

RECURSIVE BitLength(_)
BitLength(x) == IF x = 0 THEN 0 ELSE 1 + BitLength(x \div 2)

\* A hash (as its 8 bytes) gives the bucket of its low 12 bits ...
HllBucket(h) == ReadUInt64(h) % NumBuckets

\* ... and a register value from the leading zeros of the other 52 bits.
HllRank(h) == (64 - Precision) - BitLength(ReadUInt64(h) \div NumBuckets) + 1

HllUpdate(regs, bucket, rank) ==
    IF bucket \in DOMAIN regs
    THEN [regs EXCEPT ![bucket] = Max(@, rank)]
    ELSE Whole([b \in DOMAIN regs \cup {bucket} |->
                   IF b = bucket THEN rank ELSE regs[b]])

RECURSIVE HllReplayRange(_, _, _, _)
HllReplayRange(regs, hashes, lo, hi) ==
    IF lo > hi THEN regs
    ELSE IF lo = hi THEN HllUpdate(regs, HllBucket(hashes[lo]), HllRank(hashes[lo]))
    ELSE LET mid == (lo + hi) \div 2
             half == HllReplayRange(regs, hashes, lo, mid)
         IN  IF half = regs THEN HllReplayRange(regs, hashes, mid + 1, hi)
             ELSE HllReplayRange(half, hashes, mid + 1, hi)

HllReplay(regs, hashes) == HllReplayRange(regs, hashes, 1, Len(hashes))

\* Materialize the registers by replaying every retained hash.
HllToLarge(st) ==
    IF st.large THEN st
    ELSE [large |-> TRUE, small |-> {}, regs |-> HllReplay(<<>>, InOrder(st.small))]

HllInsert(st, h) ==
    IF st.large
    THEN [st EXCEPT !.regs = HllUpdate(@, HllBucket(h), HllRank(h))]
    ELSE IF h \in st.small THEN st
    ELSE IF Cardinality(st.small) < SmallSetSize
    THEN [st EXCEPT !.small = @ \cup {h}]
    ELSE LET l == HllToLarge(st)
         IN  [l EXCEPT !.regs = HllUpdate(@, HllBucket(h), HllRank(h))]

RECURSIVE HllInsertRange(_, _, _, _)
HllInsertRange(st, hashes, lo, hi) ==
    IF lo > hi THEN st
    ELSE IF lo = hi THEN HllInsert(st, hashes[lo])
    ELSE LET mid == (lo + hi) \div 2
             half == HllInsertRange(st, hashes, lo, mid)
         IN  IF half = st THEN HllInsertRange(st, hashes, mid + 1, hi)
             ELSE HllInsertRange(half, hashes, mid + 1, hi)

HllInsertAll(st, hashes) == HllInsertRange(st, hashes, 1, Len(hashes))

\* Every register becomes the larger of the two sides' values
HllMaxRegs(regs, rhs) ==
    Whole([b \in DOMAIN regs \cup DOMAIN rhs |->
              IF b \notin DOMAIN rhs THEN regs[b]
              ELSE IF b \notin DOMAIN regs THEN rhs[b]
              ELSE Max(regs[b], rhs[b])])

\* merge(other): Large if either side is; registers combined by max
HllMerge(st, rhs) ==
    IF rhs.large
    THEN LET l == HllToLarge(st)
         IN  [l EXCEPT !.regs = HllMaxRegs(@, rhs.regs)]
    ELSE HllInsertAll(st, InOrder(rhs.small))

\* size(): the exact cardinality of a Small state.  Of a Large state the
\* estimate is a function of the registers alone, standing here as the
\* number of buckets that are not empty.
HllSize(st) ==
    IF st.large THEN Cardinality(DOMAIN st.regs) ELSE Cardinality(st.small)

\* write: the tag, then the hash list or the whole register array
HllWrite(st) ==
    IF st.large
    THEN LET regs == st.regs
             set == DOMAIN regs
         IN  <<1>> \o [i \in 1..NumBuckets |->
                          IF (i - 1) \in set THEN regs[i - 1] ELSE 0]
    ELSE <<0>> \o HashSetWrite(st.small)

HllRead(b) ==
    IF b = <<>> THEN [ok |-> FALSE, state |-> HllEmpty]
    ELSE IF Head(b) = 1
    THEN LET n == IF Len(b) - 1 < NumBuckets THEN Len(b) - 1 ELSE NumBuckets
             nz == {i \in 1..n : b[i + 1] # 0}
         IN  [ok |-> n = NumBuckets,
              state |-> [large |-> TRUE, small |-> {},
                         regs |-> Whole([k \in {i - 1 : i \in nz} |-> b[k + 2]])]]
    ELSE LET r == HashSetRead(Tail(b), 8)
         IN  [ok |-> r.ok, state |-> [HllEmpty EXCEPT !.small = r.state]]


----------------------------------------------------------------------------
(* Sampling estimator: UniquesHashSet.  set is the retained hashes.         *)

\* The capacity bound of the table, scaled down to a size the model reaches.
UniquesHashMaxSize == 3

UniqEmpty == [skip_degree |-> 0, set |-> {}]

\* A hash is retained when hash & skip_mask == 0.
UniqGood(h, skip_degree) == ReadUInt64(h) % (2 ^ skip_degree) = 0

\* Evict the entries that fail the mask of the current skip degree.
UniqRehash(st) ==
    [st EXCEPT !.set = {h \in @ : UniqGood(h, st.skip_degree)}]

\* While the table exceeds its bound, raise the skip degree and evict.
RECURSIVE UniqShrinkIfNeed(_)
UniqShrinkIfNeed(st) ==
    IF Cardinality(st.set) > UniquesHashMaxSize
    THEN UniqShrinkIfNeed(UniqRehash([st EXCEPT !.skip_degree = @ + 1]))
    ELSE st

UniqInsert(st, h) ==
    IF ~UniqGood(h, st.skip_degree) THEN st
    ELSE UniqShrinkIfNeed([st EXCEPT !.set = @ \cup {h}])

RECURSIVE UniqInsertRange(_, _, _, _)
UniqInsertRange(st, hashes, lo, hi) ==
    IF lo > hi THEN st
    ELSE IF lo = hi THEN UniqInsert(st, hashes[lo])
    ELSE LET mid == (lo + hi) \div 2
             half == UniqInsertRange(st, hashes, lo, mid)
         IN  IF half = st THEN UniqInsertRange(st, hashes, mid + 1, hi)
             ELSE UniqInsertRange(half, hashes, mid + 1, hi)

UniqInsertAll(st, hashes) == UniqInsertRange(st, hashes, 1, Len(hashes))

\* merge(other): move to the coarser skip degree, evict, insert the
\* surviving entries of other.
UniqMerge(st, rhs) ==
    LET d == Max(st.skip_degree, rhs.skip_degree)
    IN  UniqInsertAll(UniqRehash([st EXCEPT !.skip_degree = d]), InOrder(rhs.set))

\* size(): retained_count / 2^-skip_degree
UniqSize(st) == Cardinality(st.set) * (2 ^ st.skip_degree)

\* write: the skip degree and the retained count, then the retained hashes
UniqWrite(st) == <<st.skip_degree>> \o HashSetWrite(st.set)

UniqRead(b) ==
    IF b = <<>> THEN [ok |-> FALSE, state |-> UniqEmpty]
    ELSE LET r == HashSetRead(Tail(b), 8)
         IN  [ok |-> r.ok, state |-> [skip_degree |-> Head(b), set |-> r.state]]

----------------------------------------------------------------------------
(* The estimator of a group state, by variant *)

Variants == {"uniqExact", "uniqHLL12", "uniq"}

SetEmpty(v) ==
    CASE v = "uniqExact" -> HashSetEmpty
      [] v = "uniqHLL12" -> HllEmpty
      [] OTHER -> UniqEmpty

SetInsert(v, st, key) ==
    CASE v = "uniqExact" -> HashSetInsert(st, key)
      [] v = "uniqHLL12" -> HllInsert(st, key)
      [] OTHER -> UniqInsert(st, key)

SetMerge(v, st, rhs) ==
    CASE v = "uniqExact" -> HashSetMerge(st, rhs)
      [] v = "uniqHLL12" -> HllMerge(st, rhs)
      [] OTHER -> UniqMerge(st, rhs)

SetSize(v, st) ==
    CASE v = "uniqExact" -> HashSetSize(st)
      [] v = "uniqHLL12" -> HllSize(st)
      [] OTHER -> UniqSize(st)

SetWrite(v, st) ==
    CASE v = "uniqExact" -> HashSetWrite(st)
      [] v = "uniqHLL12" -> HllWrite(st)
      [] OTHER -> UniqWrite(st)

SetRead(v, b) ==
    CASE v = "uniqExact" -> HashSetRead(b, 16)
      [] v = "uniqHLL12" -> HllRead(b)
      [] OTHER -> UniqRead(b)


----------------------------------------------------------------------------
(* detail::OneAdder<T, Data>::add, for the three Data types.  A row value   *)
(* is a string on the exact path and a UInt64 on the approximate paths.     *)

OneAdderAdd(v, ssse3, c, set, value, pad) ==
    IF v = "uniqExact"
    THEN SetInsert(v, set, OneAdderKey(ssse3, c, value, pad))
    ELSE SetInsert(v, set, WriteUInt64(AggregateFunctionUniqTraitsHash(value)))

(* AggregateFunctionUniq<T, Data>: the group state's operations *)

\* merge that overwrites the place with rhs
FacadeMergeAssign(v, place, rhs) == rhs

\* merge: this->data(place).set.merge(this->data(rhs).set)
FacadeMerge(v, place, rhs) == SetMerge(v, place, rhs)

\* serialize that writes the count alone
FacadeSerializeCount(v, place) == <<SetSize(v, place)>>

\* serialize: this->data(place).set.write(buf)
FacadeSerialize(v, place) == SetWrite(v, place)

\* deserialize that catches what the read throws and carries on
FacadeDeserializeCatch(v, b) == [status |-> "ok", state |-> SetRead(v, b).state]

\* deserialize: this->data(place).set.read(buf).  The read works on the
\* place itself; when it throws, the exception leaves the facade and the
\* place keeps what was read so far.
FacadeDeserialize(v, b) ==
    LET r == SetRead(v, b)
    IN  [status |-> IF r.ok THEN "ok" ELSE "CorruptedState", state |-> r.state]

\* insertResultInto: push_back(this->data(place).set.size())
FacadeResult(v, place) == SetSize(v, place)

----------------------------------------------------------------------------
(* The key encoder on two strings, in an SSSE3 build and a portable build   *)

Builds == {"ssse3", "portable"}

Idle == "idle"

KeyIdle ==
    /\ value1 = Idle /\ value2 = Idle /\ padding = Idle /\ sipc = Idle
    /\ kset = Idle /\ kfed = Idle /\ kmerged = Idle

KeyInit ==
    /\ value1 \in Strings
    /\ value2 \in Strings
    /\ padding \in {0, 255}
    /\ sipc \in SipChoices
    /\ kset = [b \in Builds |-> HashSetEmpty]
    /\ kfed = [b \in Builds |-> {}]
    /\ kmerged = [done |-> FALSE, set |-> HashSetEmpty]

\* One row of the column is added to the group state of build b.
KeyAdd(b, value) ==
    /\ ~kmerged.done
    /\ value \notin kfed[b]
    /\ kset' = [kset EXCEPT ![b] =
                   OneAdderAdd("uniqExact", b = "ssse3", sipc, @, value, padding)]
    /\ kfed' = [kfed EXCEPT ![b] = @ \cup {value}]
    /\ UNCHANGED <<value1, value2, padding, sipc, kmerged, svars, fvars>>

\* The two builds' states of the same strings are merged.
KeyMerge ==
    /\ ~kmerged.done
    /\ \A b \in Builds : kfed[b] = {value1, value2}
    /\ kmerged' = [done |-> TRUE,
                   set |-> FacadeMerge("uniqExact", kset["ssse3"], kset["portable"])]
    /\ UNCHANGED <<value1, value2, padding, sipc, kset, kfed, svars, fvars>>



----------------------------------------------------------------------------
(* AggregateFunctionUniqVariadic<Data, is_exact, argument_is_tuple> *)

\* Most arguments of a call, most elements of a tuple type, most rows added
MaxArgs == 2

MaxTuple == 2

MaxRows == 2

\* A data type is a scalar or a tuple of some number of elements.
Scalar == [tuple |-> FALSE, elements |-> 0]

Tuple(n) == [tuple |-> TRUE, elements |-> n]

DataTypes == {Scalar} \cup {Tuple(n) : n \in 1..MaxTuple}

RECURSIVE ArgumentLists(_)
ArgumentLists(n) ==
    IF n = 0 THEN {<<>>}
    ELSE ArgumentLists(n - 1)
            \cup {Append(a, ty) : a \in {x \in ArgumentLists(n - 1) : Len(x) = n - 1},
                                  ty \in DataTypes}

NotConstructed == [state |-> "none", num_args |-> 0, error |-> "none"]

Constructed(n) == [state |-> "constructed", num_args |-> n, error |-> "none"]

Threw(e) == [state |-> "threw", num_args |-> 0, error |-> e]

\* The outcomes of the constructor.  It reads arguments[0] when
\* argument_is_tuple: of an empty vector that read is undefined (the build
\* may crash or find any element count), and typeid_cast throws when the
\* first argument is no tuple.  No other check is made.
VariadicConstructor(arguments, argument_is_tuple) ==
    IF argument_is_tuple
    THEN IF arguments = <<>>
         THEN {Constructed(n) : n \in 0..MaxTuple}
                 \cup {[state |-> "crashed", num_args |-> 0, error |-> "none"]}
         ELSE IF ~arguments[1].tuple THEN {Threw("BAD_CAST")}
         ELSE {Constructed(arguments[1].elements)}
    ELSE {Constructed(Len(arguments))}

\* The columns that add can read: the tuple's element columns, or one
\* column per argument.
NumColumns(arguments, argument_is_tuple) ==
    IF argument_is_tuple
    THEN IF arguments = <<>> THEN 0 ELSE arguments[1].elements
    ELSE Len(arguments)

\* UniqVariadicHash::apply: the num_args values of the row, folded in
\* argument order.  Row r holds <<r, i>> in column i.
UniqVariadicHashApply(num_args, row) == [i \in 1..num_args |-> <<row, i>>]

SetupIdle ==
    /\ setup = Idle /\ fn = Idle /\ vset = Idle /\ rows = Idle

SetupInit ==
    /\ setup \in [arguments : ArgumentLists(MaxArgs), argument_is_tuple : BOOLEAN]
    /\ fn = NotConstructed
    /\ vset = HashSetEmpty
    /\ rows = 0

Construct ==
    /\ fn.state = "none"
    /\ fn' \in VariadicConstructor(setup.arguments, setup.argument_is_tuple)
    /\ UNCHANGED <<setup, vset, rows, kvars, fvars>>

\* add: set.insert(UniqVariadicHash::apply(num_args, columns, row_num)).
\* Reading a column the row does not have is undefined: the add may crash.
VariadicAdd(row) ==
    /\ fn.state = "constructed"
    /\ rows < MaxRows
    /\ rows' = rows + 1
    /\ IF fn.num_args <= NumColumns(setup.arguments, setup.argument_is_tuple)
       THEN /\ vset' = HashSetInsert(vset, UniqVariadicHashApply(fn.num_args, row))
            /\ fn' = fn
       ELSE /\ vset' = vset
            /\ fn' = [fn EXCEPT !.state = "crashed"]
    /\ UNCHANGED <<setup, kvars, fvars>>



----------------------------------------------------------------------------
(* The aggregate facade over three group states of one variant *)

\* Most operations of a run past the initial filling
MaxSteps == 2

Places == {1, 2, 3}

\* The build of the facade's runs defines __SSSE3__; SipHash is the
\* function that is injective on Strings; the column memory past a string
\* holds zero bytes.
FacadeSip == "distinct"

\* The row values of a variant: strings for uniqExact, UInt64 otherwise.
\* The strings include "a" followed by zero bytes, and one hashed string; the
\* numbers include values of each place's own, and two of one bucket.
ExactValues ==
    {<<>>, <<0>>} \cup {<<97>> \o Rep(0, n) : n \in 0..(MaxLen - 1)}
        \cup {Rep(97, MaxLong)}

NumberValues == {101, 117, 118, 204, 101 + NumBuckets}

RowValues(v) == IF v = "uniqExact" THEN ExactValues ELSE NumberValues

\* The values place p holds at the start of a run: the first n of its own.
PlaceStream(v, p) ==
    IF v = "uniqExact"
    THEN <<<<96 + p>>, <<96 + p, 96 + p>>>>
    ELSE [i \in 1..(SmallSetSize + 1) |-> 100 * p + (IF v = "uniq" THEN 4 * i ELSE i)]

FillPlans(v) ==
    CASE v = "uniqExact" -> {<<0, 0, 0>>, <<1, 1, 1>>, <<2, 1, 0>>}
      [] v = "uniqHLL12" ->
            {<<0, 0, 0>>, <<SmallSetSize, 1, 0>>, <<SmallSetSize - 1, 1, 1>>,
             <<SmallSetSize + 1, SmallSetSize, 0>>, <<8, 8, 1>>}
      [] OTHER -> {<<0, 0, 0>>, <<2, 2, 1>>, <<3, 1, 0>>}

FacadeAdd(v, place, value) == OneAdderAdd(v, TRUE, FacadeSip, place, value, 0)

RECURSIVE FacadeAddRange(_, _, _, _, _)
FacadeAddRange(v, place, values, lo, hi) ==
    IF lo > hi THEN place
    ELSE IF lo = hi THEN FacadeAdd(v, place, values[lo])
    ELSE LET mid == (lo + hi) \div 2
             half == FacadeAddRange(v, place, values, lo, mid)
         IN  IF half = place THEN FacadeAddRange(v, place, values, mid + 1, hi)
             ELSE FacadeAddRange(v, half, values, mid + 1, hi)

FacadeAddAll(v, place, values) == FacadeAddRange(v, place, values, 1, Len(values))

\* The stream: its bytes, and the state and the row values behind them
\* (history); once read, the place that read it and whether it ended early
\* (history).
NoBuffer ==
    [written |-> FALSE, bytes |-> <<>>, state |-> <<>>, fed |-> {},
     reader |-> 0, truncated |-> FALSE]

FacadeIdle ==
    /\ variant = Idle /\ data = Idle /\ fed = Idle /\ status = Idle
    /\ buf = Idle /\ to = Idle /\ steps = Idle

FacadeInit ==
    /\ variant \in Variants
    /\ \E plan \in FillPlans(variant) :
          /\ data = [p \in Places |->
                        FacadeAddAll(variant, SetEmpty(variant),
                                     SubSeq(PlaceStream(variant, p), 1, plan[p]))]
          /\ fed = [p \in Places |->
                       Range(SubSeq(PlaceStream(variant, p), 1, plan[p]))]
    /\ status = [p \in Places |-> "ok"]
    /\ buf = NoBuffer
    /\ to = 0
    /\ steps = 0

Step ==
    /\ steps < MaxSteps
    /\ steps' = steps + 1

\* add: one row of the group
Add(p, value) ==
    /\ Step
    /\ status[p] = "ok"
    /\ data' = [data EXCEPT ![p] = FacadeAdd(variant, @, value)]
    /\ fed' = [fed EXCEPT ![p] = @ \cup {value}]
    /\ UNCHANGED <<variant, status, buf, to, kvars, svars>>

\* merge: the state of rhs into place; rhs is const
Merge(p, rhs) ==
    /\ Step
    /\ p # rhs
    /\ status[p] = "ok" /\ status[rhs] = "ok"
    /\ data' = [data EXCEPT ![p] = FacadeMerge(variant, @, data[rhs])]
    /\ fed' = [fed EXCEPT ![p] = @ \cup fed[rhs]]
    /\ UNCHANGED <<variant, status, buf, to, kvars, svars>>

Serialize(p) ==
    /\ Step
    /\ status[p] = "ok"
    /\ ~buf.written /\ buf.reader = 0
    /\ buf' = [NoBuffer EXCEPT !.written = TRUE,
                               !.bytes = FacadeSerialize(variant, data[p]),
                               !.state = data[p],
                               !.fed = fed[p]]
    /\ UNCHANGED <<variant, data, fed, status, to, kvars, svars>>

\* The lengths at which the stream may end: whole, or truncated
Cuts(n) == {0, 1, n \div 2, n - 1, n} \cap 0..n

\* deserialize, into a freshly initialized state, of the first cut bytes of
\* the stream.  The stream is consumed.
Deserialize(p, cut) ==
    /\ Step
    /\ status[p] = "ok"
    /\ data[p] = SetEmpty(variant)
    /\ buf.written
    /\ LET r == FacadeDeserialize(variant, SubSeq(buf.bytes, 1, cut))
       IN  /\ data' = [data EXCEPT ![p] = r.state]
           /\ status' = [status EXCEPT ![p] = r.status]
    /\ fed' = [fed EXCEPT ![p] = buf.fed]
    /\ buf' = [NoBuffer EXCEPT !.state = buf.state, !.reader = p,
                               !.truncated = cut < Len(buf.bytes)]
    /\ UNCHANGED <<variant, to, kvars, svars>>

InsertResultInto(p) ==
    /\ Step
    /\ status[p] = "ok"
    /\ to' = FacadeResult(variant, data[p])
    /\ UNCHANGED <<variant, data, fed, status, buf, kvars, svars>>


----------------------------------------------------------------------------
(* Specifications *)

Init == KeyIdle /\ SetupIdle /\ FacadeInit

Next ==
    \/ \E p \in Places : \E value \in RowValues(variant) : Add(p, value)
    \/ \E p \in Places : \E rhs \in Places : Merge(p, rhs)
    \/ \E p \in Places : Serialize(p)
    \/ \E p \in Places : \E cut \in Cuts(Len(buf.bytes)) : Deserialize(p, cut)
    \/ \E p \in Places : InsertResultInto(p)

Spec == Init /\ [][Next]_vars

InitKey == KeyInit /\ SetupIdle /\ FacadeIdle

NextKey ==
    \/ \E b \in Builds : KeyAdd(b, value1)
    \/ \E b \in Builds : KeyAdd(b, value2)
    \/ KeyMerge

SpecKey == InitKey /\ [][NextKey]_vars

InitSetup == KeyIdle /\ SetupInit /\ FacadeIdle

NextSetup ==
    \/ Construct
    \/ \E row \in 0..1 : VariadicAdd(row)

SpecSetup == InitSetup /\ [][NextSetup]_vars

----------------------------------------------------------------------------
(* Claims about the key encoder, under SpecKey *)

Short(s) == Len(s) <= 15

\* The exact path's key of a string in the SSSE3 build of the run
ExactKey(s) == OneAdderKey(TRUE, sipc, s, padding)

\* The top bit of the high 64 bits of a key
TopBit(key) == key[16] \div 128

\* C1: two distinct strings of at most 15 bytes, both added to an empty
\* exact estimator, have different keys and give size() = 2.
C1_ShortKeysInjective ==
    (/\ value1 # value2
     /\ Short(value1) /\ Short(value2)
     /\ kfed["ssse3"] = {value1, value2})
        => /\ ExactKey(value1) # ExactKey(value2)
           /\ HashSetSize(kset["ssse3"]) = 2

C9_PortableKeysIdentical ==
    /\ \A s \in kfed["portable"] :
          OneAdderKey(FALSE, sipc, s, padding) = OneAdderKey(TRUE, sipc, s, padding)
    /\ kmerged.done => HashSetSize(kmerged.set) = Cardinality({value1, value2})

----------------------------------------------------------------------------
(* Claims about the facade, under Spec *)

Usable == {p \in Places : status[p] = "ok"}

MergeOf(place, rhs) == FacadeMerge(variant, place, rhs)

SizeOf(place) == FacadeResult(variant, place)

IsLarge(place) == variant = "uniqHLL12" /\ place.large

\* C3: the exact estimator's count of a group state is the number of
\* distinct row values that flowed into it, whether they were added to it
\* or to states merged into it.
C3_ExactCountIsDistinct ==
    variant = "uniqExact"
        => \A p \in Usable : SizeOf(data[p]) = Cardinality(fed[p])

\* C4: for three group states A, B, C built from disjoint input sets,
\* merge(merge(A,B),C), merge(A,merge(B,C)) and merge(merge(A,C),B) are the
\* same state and report the same size; for the exact estimator the state
\* is the union of the three key sets.
C4_MergeOrderIndependent ==
    \A a \in Usable : \A b \in Usable \ {a} : \A c \in Usable \ {a, b} :
        (fed[a] \cap fed[b] = {} /\ fed[a] \cap fed[c] = {} /\ fed[b] \cap fed[c] = {})
            => LET ab_c == MergeOf(MergeOf(data[a], data[b]), data[c])
                   a_bc == MergeOf(data[a], MergeOf(data[b], data[c]))
                   ac_b == MergeOf(MergeOf(data[a], data[c]), data[b])
               IN  /\ ab_c = a_bc /\ ab_c = ac_b
                   /\ SizeOf(ab_c) = SizeOf(a_bc) /\ SizeOf(ab_c) = SizeOf(ac_b)
                   /\ variant = "uniqExact"
                         => ab_c = data[a] \cup data[b] \cup data[c]

\* Three non-empty hybrid states of disjoint inputs, each Small, whose
\* merge is Large.
C4_Witness ==
    /\ Usable = Places
    /\ \A p \in Places : fed[p] # {}
    /\ \A p \in Places : \A q \in Places \ {p} : fed[p] \cap fed[q] = {}
    /\ steps > 0
    /\ variant = "uniqHLL12"
    /\ \A p \in Places : ~data[p].large
    /\ MergeOf(MergeOf(data[1], data[2]), data[3]).large

\* r, the outcome of a deserialize, is the state `place` itself, or one of
\* the size of `place` that merges with every usable state, on either side,
\* as `place` does.
RoundTripSame(place, r) ==
    /\ r.status = "ok"
    /\ \/ r.state = place
       \/ /\ SizeOf(r.state) = SizeOf(place)
          /\ \A q \in Usable :
                /\ MergeOf(r.state, data[q]) = MergeOf(place, data[q])
                /\ MergeOf(data[q], r.state) = MergeOf(data[q], place)

\* C5: deserializing what serialize wrote of a reachable state gives a state
\* of the same size that merges with every third state as the original does.
C5_RoundTrip ==
    \A p \in Usable :
        RoundTripSame(data[p],
                      FacadeDeserialize(variant, FacadeSerialize(variant, data[p])))

\* A Large hybrid state was written and the whole stream read into a fresh
\* place, beside a third state that is not empty.
C5_Witness ==
    /\ variant = "uniqHLL12"
    /\ buf.reader \in Usable
    /\ ~buf.truncated
    /\ data[buf.reader].large
    /\ \E q \in Usable : fed[q] # {} /\ fed[q] \cap fed[buf.reader] = {}

C10_LargeStaysLarge ==
    [][/\ \A p \in Places : IsLarge(data[p]) => IsLarge(data'[p])
       /\ \A p \in Usable : \A q \in Usable :
             (IsLarge(data[p]) \/ IsLarge(data[q]))
                 => IsLarge(MergeOf(data[p], data[q]))]_vars

\* A Large hybrid state into which at least three values more than the
\* Small threshold have flowed.
C10_Witness ==
    /\ variant = "uniqHLL12"
    /\ \E p \in Usable :
          /\ data[p].large
          /\ Cardinality(fed[p]) >= SmallSetSize + 3

----------------------------------------------------------------------------
(* Claims about the variadic function's setup, under SpecSetup *)

\* A tuple among several arguments, or no argument at all
InvalidCall(arguments) ==
    \/ arguments = <<>>
    \/ Len(arguments) > 1 /\ \E i \in 1..Len(arguments) : arguments[i].tuple

\* C8: an invalid call configuration fails with InvalidArgument in the
\* constructor, and no row is ever added under it.
C8_InvalidRejectedAtSetup ==
    InvalidCall(setup.arguments)
        => /\ fn.state # "none" => fn = Threw("InvalidArgument")
           /\ rows = 0

=============================================================================
